---- MODULE Spec2Model ----
(***************************************************************************)
(* A model of mycdn.py (mojo-lv/ManifestHub): MyCDNClient.download_files,  *)
(* the per-file task save_depot_file run by a ThreadPoolExecutor, and      *)
(* MyCDNClient.get_chunk, the chunk decoder with its per-chunk cache.      *)
(*                                                                         *)
(* Bytes are small naturals, a file is a sequence of bytes, the 16384-byte *)
(* read size is scaled down to ReadSize.  Every manifest entry has its own *)
(* filename, so no two tasks share a local path.                           *)
(***************************************************************************)
EXTENDS Integers, Sequences, FiniteSets, TLC

\* ------------------------------------------------------------------ bounds
NumEntries == 3
NumManifests == 2
MaxSize == 3
ReadSize == 2
MaxWorkers == 2
MaxRuns == 3
NumChunks == 2
MaxPayload == 3
MaxDecl == 3
MaxShort == 19
MaxCalls == 2
CrcModulus == 5
NumThreads == 2

\* ------------------------------------------------------------ the manifests
\* the marker of a path that does not exist (no file content holds a negative byte)
NoFile == <<-1>>

Entry == 1..NumEntries
Manifest == 1..NumManifests

Min(a, b) == IF a < b THEN a ELSE b

\* self.manifests: manifest m lists the entries m, m + NumManifests, ...
ManifestOf(e) == ((e - 1) % NumManifests) + 1
FilesOf(m) == [i \in 1..((NumEntries - m) \div NumManifests + 1) |-> m + (i - 1) * NumManifests]

\* manifest.depot_id, and manifest.filenames_encrypted as parsed from the manifest
depot_id(m) == m
EncryptedAtLoad(m) == m % 2 = 0

\* depot_file.is_file: the last entry of the listing is a directory
is_file(e) == e # NumEntries
\* depot_file.size
size(e) == 1 + (e % MaxSize)

\* the content the manifest promises for entry e (bytes 1 and 2; 0 never occurs in it)
Content(e) == [i \in 1..size(e) |-> 1 + ((e + i) % 2)]

\* hashlib.sha1, idealised as collision free: a positional encoding of the bytes
RECURSIVE sha1(_)
sha1(s) == IF s = <<>> THEN 0 ELSE 4 * sha1(SubSeq(s, 1, Len(s) - 1)) + s[Len(s)] + 1

\* depot_file.file_mapping.sha_content
sha_content(e) == sha1(Content(e))

\* depot_file.filename: the plain name of entry e is e, its encrypted name e + NumEntries
PlainName(e) == e
EncName(e) == e + NumEntries
Path == 1..(2 * NumEntries)

\* local files a destination directory may hold for entry e before a run: none, a
\* prefix of the content, the content, a damaged copy, or a longer file
Damaged(s) == [s EXCEPT ![1] = 0]
LocalChoices(e) ==
    {NoFile}
      \cup {SubSeq(Content(e), 1, n) : n \in 0..size(e)}
      \cup {Damaged(SubSeq(Content(e), 1, n)) : n \in 1..size(e)}
      \cup {Content(e) \o <<0>>}

\* the offsets of entry e whose chunk cannot be fetched during one run: none, or
\* byte k (every read that covers offset k raises)
FaultChoices(e) == {{}} \cup {{k} : k \in 0..(size(e) - 1)}

\* the entries that are files, what the destination may hold for them before the
\* first run (under their plain names), and the faults of one run
FileEntry == {e \in Entry : is_file(e)}
LocalFiles ==
    {c \in [FileEntry -> UNION {LocalChoices(e) : e \in FileEntry}] :
       \A e \in FileEntry : c[e] \in LocalChoices(e)}
Faults ==
    {f \in [FileEntry -> UNION {FaultChoices(e) : e \in FileEntry}] :
       \A e \in FileEntry : f[e] \in FaultChoices(e)}

\* -------------------------------------------------------- the chunk frames
Max(a, b) == IF a > b THEN a ELSE b

\* Python's s[a:b] for a, b that may be negative (counted from the end)
PyIndex(s, x) == IF x < 0 THEN Max(0, Len(s) + x) ELSE Min(Len(s), x)
PySlice(s, a, b) ==
    IF PyIndex(s, a) < PyIndex(s, b) THEN SubSeq(s, PyIndex(s, a) + 1, PyIndex(s, b)) ELSE <<>>
\* Python's s[:n] for n >= 0
PyHead(s, n) == PySlice(s, 0, n)

\* the magic prefixes b'VZa' and b'VSZa'
VZ_MAGIC == <<86, 90, 97>>
VSZ_MAGIC == <<86, 83, 90, 97>>

\* one 32-bit little-endian field of struct.unpack('<II', ...)
LE32(b) == b[1] + 256 * b[2] + 65536 * b[3] + 16777216 * b[4]

\* binascii.crc32, scaled down: a checksum of the bytes with crc32(b'') = 0
RECURSIVE crc32(_)
crc32(s) ==
    IF s = <<>> THEN 0 ELSE (2 * crc32(SubSeq(s, 1, Len(s) - 1)) + s[Len(s)] + 1) % CrcModulus

\* The compressed streams are run-length coded: a stream is a sequence of pairs
\* (count, byte), a pair of count 0 is corrupt.  Runs(s) decodes the complete pairs
\* of s up to the first corrupt one.
RECURSIVE Runs(_)
Runs(s) ==
    IF Len(s) < 2 \/ s[1] = 0 THEN <<>>
    ELSE [i \in 1..s[1] |-> s[2]] \o Runs(SubSeq(s, 3, Len(s)))
RECURSIVE Corrupt(_)
Corrupt(s) ==
    IF Len(s) < 2 THEN FALSE ELSE s[1] = 0 \/ Corrupt(SubSeq(s, 3, Len(s)))

\* lzma._decode_filter_properties(FILTER_LZMA1, props): five bytes, the first one
\* (lc, lp, pb) below 225
PropsValid(props) == Len(props) = 5 /\ props[1] < 225

\* LZMADecompressor(FORMAT_RAW).decompress: the output of the pairs present, input
\* that ends inside a pair is not an error; corrupt input raises LZMAError
LzmaDecompress(s) ==
    IF Corrupt(s) THEN [ok |-> FALSE, data |-> <<>>] ELSE [ok |-> TRUE, data |-> Runs(s)]

\* ZstdDecompressor().decompress: one whole frame; empty, incomplete or corrupt
\* input raises ZstdError
ZstdDecompress(s) ==
    IF s = <<>> \/ Len(s) % 2 = 1 \/ Corrupt(s)
    THEN [ok |-> FALSE, data |-> <<>>]
    ELSE [ok |-> TRUE, data |-> Runs(s)]

\* zf.read of one entry: its content inflated; incomplete or corrupt content
\* raises BadZipFile
Inflate(s) ==
    IF Len(s) % 2 = 1 \/ Corrupt(s)
    THEN [ok |-> FALSE, data |-> <<>>]
    ELSE [ok |-> TRUE, data |-> Runs(s)]

\* The generic archive: b'PK', then entries, each a length byte and that many bytes
\* of run-length coded content.  ZipEntries(s) is the archive's entry list, or
\* <<-1>> followed by nothing when the directory is malformed.
RECURSIVE ZipEntries(_)
ZipEntries(s) ==
    IF s = <<>> THEN <<>>
    ELSE IF Len(s) < 1 + s[1] THEN <<<<-1>>>>
    ELSE <<SubSeq(s, 2, 1 + s[1])>> \o ZipEntries(SubSeq(s, 2 + s[1], Len(s)))
ZipOpens(data) ==
    /\ PyHead(data, 2) = <<80, 75>>
    /\ \A i \in 1..Len(ZipEntries(SubSeq(data, 3, Len(data)))) :
         ZipEntries(SubSeq(data, 3, Len(data)))[i] # <<-1>>
filelist(data) == ZipEntries(SubSeq(data, 3, Len(data)))

\* a decode that failed with exception err, one that returned bytes
Raise(err, dec) == [ok |-> FALSE, err |-> err, data |-> <<>>, decoder |-> dec]
Return(d, dec) == [ok |-> TRUE, err |-> "none", data |-> d, decoder |-> dec]

\* mutant: the VZ branch returns the decompressed bytes without the CRC32 check
DecodeVZNoCrc(data) ==
    IF ~PropsValid(PySlice(data, 7, 12)) THEN Raise("LZMAError", "lzma")
    ELSE IF Len(PySlice(data, -10, -2)) # 8 THEN Raise("struct.error", "lzma")
    ELSE IF ~LzmaDecompress(PySlice(data, 12, -9)).ok THEN Raise("LZMAError", "lzma")
    ELSE Return(PyHead(LzmaDecompress(PySlice(data, 12, -9)).data,
                       LE32(SubSeq(PySlice(data, -10, -2), 5, 8))), "lzma")

\* get_chunk, the branch data[:3] == b'VZa'
DecodeVZ(data) ==
    IF ~PropsValid(PySlice(data, 7, 12)) THEN Raise("LZMAError", "lzma")
    ELSE IF Len(PySlice(data, -10, -2)) # 8 THEN Raise("struct.error", "lzma")
    ELSE IF ~LzmaDecompress(PySlice(data, 12, -9)).ok THEN Raise("LZMAError", "lzma")
    ELSE IF crc32(PyHead(LzmaDecompress(PySlice(data, 12, -9)).data,
                         LE32(SubSeq(PySlice(data, -10, -2), 5, 8))))
              # LE32(SubSeq(PySlice(data, -10, -2), 1, 4))
         THEN Raise("ValueError", "lzma")
    ELSE Return(PyHead(LzmaDecompress(PySlice(data, 12, -9)).data,
                       LE32(SubSeq(PySlice(data, -10, -2), 5, 8))), "lzma")

\* get_chunk, the branch data[:4] == b'VSZa'
DecodeVSZ(data) ==
    IF Len(PySlice(data, -15, -7)) # 8 THEN Raise("struct.error", "zstd")
    ELSE IF ~ZstdDecompress(PySlice(data, 8, -15)).ok THEN Raise("ZstdError", "zstd")
    ELSE IF crc32(PyHead(ZstdDecompress(PySlice(data, 8, -15)).data,
                         LE32(SubSeq(PySlice(data, -15, -7), 5, 8))))
              # LE32(SubSeq(PySlice(data, -15, -7), 1, 4))
         THEN Raise("ValueError", "zstd")
    ELSE Return(PyHead(ZstdDecompress(PySlice(data, 8, -15)).data,
                       LE32(SubSeq(PySlice(data, -15, -7), 5, 8))), "zstd")

\* get_chunk, the else branch: ZipFile(BytesIO(data)), zf.read(zf.filelist[0])
DecodeZip(data) ==
    IF ~ZipOpens(data) THEN Raise("BadZipFile", "zip")
    ELSE IF filelist(data) = <<>> THEN Raise("IndexError", "zip")
    ELSE IF ~Inflate(filelist(data)[1]).ok THEN Raise("BadZipFile", "zip")
    ELSE Return(Inflate(filelist(data)[1]).data, "zip")

\* mutant: one test of the first byte sends every frame that starts with V to the
\* LZMA branch
DecodeFramePrefixV(data) ==
    IF PyHead(data, 1) = <<86>> THEN DecodeVZ(data)
    ELSE IF PyHead(data, 4) = VSZ_MAGIC THEN DecodeVSZ(data)
    ELSE DecodeZip(data)

\* get_chunk: the decoding of the decrypted frame, by its magic prefix
DecodeFrame(data) ==
    IF PyHead(data, 3) = VZ_MAGIC THEN DecodeVZ(data)
    ELSE IF PyHead(data, 4) = VSZ_MAGIC THEN DecodeVSZ(data)
    ELSE DecodeZip(data)

\* ---- the frames a content server may serve
\* a 32-bit little-endian field holding n
U32(n) == <<n % 256, (n \div 256) % 256, (n \div 65536) % 256, n \div 16777216>>

\* every sequence over S of length at most n
RECURSIVE SeqsUpTo(_, _)
SeqsUpTo(S, n) ==
    IF n = 0 THEN {<<>>}
    ELSE SeqsUpTo(S, n - 1) \cup {Append(q, x) : q \in SeqsUpTo(S, n - 1), x \in S}

Payloads == SeqsUpTo(0..2, MaxPayload)

\* a VZ frame: magic, 4 header bytes, 5 property bytes, the stream, then the footer
\* of checksum, decompressed size and b'zv'
VZFrame(props, payload, sum, n) ==
    VZ_MAGIC \o <<0, 0, 0, 0>> \o props \o payload \o U32(sum) \o U32(n) \o <<122, 118>>
\* a VSZ frame: magic, 4 header bytes, the stream, then the footer of checksum,
\* decompressed size, compressed size and b'zsv'
VSZFrame(payload, sum, n) ==
    VSZ_MAGIC \o <<0, 0, 0, 0>> \o payload \o U32(sum) \o U32(n) \o U32(Len(payload))
      \o <<122, 115, 118>>
\* an archive of the entries es
RECURSIVE ZipFrame(_)
ZipFrame(es) ==
    IF es = <<>> THEN <<80, 75>>
    ELSE ZipFrame(SubSeq(es, 1, Len(es) - 1)) \o <<Len(es[Len(es)])>> \o es[Len(es)]

Frames ==
    {VZFrame(props, q, c, n) :
        props \in {<<93, 0, 0, 1, 0>>, <<225, 0, 0, 1, 0>>},
        q \in Payloads, c \in 0..(CrcModulus - 1), n \in 0..MaxDecl}
      \cup {VSZFrame(q, c, n) : q \in Payloads, c \in 0..(CrcModulus - 1), n \in 0..MaxDecl}
      \cup {ZipFrame(es) : es \in SeqsUpTo(SeqsUpTo(1..2, 2), 2)}
      \cup {<<>>, <<86, 90>>, <<80, 75, 3, 1, 1>>, <<7, 7, 7>>}
      \cup {VZ_MAGIC \o [i \in 1..k |-> 0] : k \in 0..MaxShort}
      \cup {VSZ_MAGIC \o [i \in 1..k |-> 0] : k \in 0..MaxShort}

\* the chunks, all of one depot; chunk 1's frame is any of Frames, the frame of a
\* chunk k > 1 is a well-formed VZ frame of two bytes k % 3
ChunkKey == 1..NumChunks
ChunkDepot == depot_id(1)
SampleFrame(k) ==
    VZFrame(<<93, 0, 0, 1, 0>>, <<2, k % 3>>, crc32(<<k % 3, k % 3>>), 2)

NoRet == [key |-> 0, ok |-> FALSE, err |-> "none", data |-> <<>>, decoder |-> "none"]

\* a thread that has not called get_chunk
IdleCall == [pc |-> "idle", key |-> 0, data |-> <<>>, fetched |-> FALSE, ok |-> FALSE,
             err |-> "none"]

VARIABLES
    max_workers,         \* download_files(download_path, max_workers)
    keyfile,             \* depot ids that depotkeys.json holds a key for
    depot_keys,          \* self.depot_keys: depot ids whose key is cached
    filenames_encrypted, \* manifest.filenames_encrypted, per manifest
    disk,                \* the download directory: path -> bytes, or NoFile
    fault,               \* per entry: the offsets its reads fail at in this run
    run,                 \* number of the current run of the tool
    mpc, mi, fi,         \* the scheduling thread: position, manifest and file index
    work_queue,          \* the executor's queue of submitted, not yet started tasks
    threads,             \* number of worker threads the executor has started
    running,             \* entries whose task a worker is executing
    task,                \* per entry: its save_depot_file call (seek: the seeks made)
    errors,              \* the failure list
    errors_lock,         \* 0, or the entry whose task holds the lock
    report,              \* the reports download_files has printed in this run
    prev_ok,             \* entries whose task of the previous run returned without raising
    history,             \* per entry: its tasks of the earlier runs, as they ended
    cdn,                 \* per chunk: the frame cdn_cmd and symmetric_decrypt yield for it
    chunk_cache,         \* self._chunk_cache: per chunk <<>> or <<the decoded bytes>>
    ret,                 \* the outcome of the last get_chunk call
    ncalls,              \* number of get_chunk calls made
    calls                \* per thread: its get_chunk call in progress (data: the local variable)

mvars == <<max_workers, keyfile, depot_keys, filenames_encrypted, disk, fault, run,
           mpc, mi, fi, work_queue, threads, running, task, errors, errors_lock, report,
           prev_ok, history>>

\* the chunk decoder's state, and the materializer's state apart from the key store
dvars == <<cdn, chunk_cache, ret, ncalls, calls>>
fvars == <<max_workers, filenames_encrypted, disk, fault, run, mpc, mi, fi, work_queue,
           threads, running, task, errors, errors_lock, report, prev_ok, history>>

vars == <<mvars, dvars>>

\* a task before save_depot_file has been called for it
FreshTask == [pc |-> "unsubmitted", path |-> 0, pre |-> NoFile, offset |-> 0,
              seek |-> <<>>, reads |-> 0, written |-> 0, mode |-> "none",
              raised |-> FALSE]

\* depot_file.filename as the manifest holds it now
filename(e) == IF filenames_encrypted[ManifestOf(e)] THEN EncName(e) ELSE PlainName(e)

\* depot_file.read(n) at cursor o: the byte range it covers, and whether it raises
ReadEnd(e, o) == Min(size(e), o + ReadSize)
ReadFails(e, o) == \E k \in fault[e] : o <= k /\ k < ReadEnd(e, o)

\* os.path.getsize(local_path)
local_size(p) == Len(disk[p])

\* the executor is idle: nothing queued, no task executing
PoolIdle == work_queue = <<>> /\ running = {}

\* mutant: the executor is created without the max_workers limit
AdjustThreadCountUnbounded(n) ==
    IF n - Cardinality(running) > Len(work_queue) THEN n ELSE n + 1

\* ThreadPoolExecutor._adjust_thread_count: a thread is started for a submitted
\* task unless an idle one is free for it or max_workers threads exist
AdjustThreadCount(n) ==
    IF n - Cardinality(running) > Len(work_queue) THEN n ELSE Min(n + 1, max_workers)

\* a worker thread may take the next queued task
WorkerFree == Cardinality(running) < threads

\* the report download_files prints from the failure list
ReportOf(errs) ==
    IF errs # <<>>
    THEN [success |-> FALSE, failed |-> errs, total |-> Len(errs)]
    ELSE [success |-> TRUE, failed |-> <<>>, total |-> 0]

\* ------------------------------------------------------------------- Init
Init ==
    /\ max_workers \in 1..MaxWorkers
    /\ keyfile \in SUBSET {depot_id(m) : m \in {x \in Manifest : EncryptedAtLoad(x)}}
    /\ depot_keys = {}
    /\ filenames_encrypted = [m \in Manifest |-> EncryptedAtLoad(m)]
    /\ disk \in {[p \in Path |-> IF p \in FileEntry THEN c[p] ELSE NoFile] : c \in LocalFiles}
    /\ fault = [e \in Entry |-> {}]
    /\ run = 0
    /\ mpc = "idle"
    /\ mi = 1
    /\ fi = 1
    /\ work_queue = <<>>
    /\ threads = 0
    /\ running = {}
    /\ task = [e \in Entry |-> FreshTask]
    /\ errors = <<>>
    /\ errors_lock = 0
    /\ report = <<>>
    /\ prev_ok = {}
    /\ history = [e \in Entry |-> <<>>]
    /\ cdn = [k \in ChunkKey |-> SampleFrame(k)]
    /\ chunk_cache = [k \in ChunkKey |-> <<>>]
    /\ ret = NoRet
    /\ ncalls = 0
    /\ calls = [t \in 1..NumThreads |-> IdleCall]

\* ---------------------------------------------------- the scheduling thread
\* main() starts the tool: a new client, the manifests loaded, download_files called
Call ==
    /\ mpc \in {"idle", "returned", "raised"}
    /\ run < MaxRuns
    /\ run' = run + 1
    /\ fault' \in {[e \in Entry |-> IF e \in FileEntry THEN f[e] ELSE {}] : f \in Faults}
    /\ depot_keys' = {}
    /\ filenames_encrypted' = [m \in Manifest |-> EncryptedAtLoad(m)]
    /\ errors' = <<>>
    /\ errors_lock' = 0
    /\ work_queue' = <<>>
    /\ threads' = 0
    /\ running' = {}
    /\ task' = [e \in Entry |-> FreshTask]
    /\ mi' = 1
    /\ fi' = 1
    /\ report' = <<>>
    /\ mpc' = "manifest"
    /\ prev_ok' = {e \in Entry : task[e].pc = "done" /\ ~task[e].raised}
    /\ history' = [e \in Entry |-> IF run = 0 THEN <<>> ELSE Append(history[e], task[e])]
    /\ UNCHANGED <<max_workers, keyfile, disk>>
    /\ UNCHANGED dvars

\* for manifest in self.manifests: a manifest with plain filenames
PlainManifest ==
    /\ mpc = "manifest"
    /\ mi <= NumManifests
    /\ ~filenames_encrypted[mi]
    /\ mpc' = "files"
    /\ fi' = 1
    /\ UNCHANGED <<max_workers, keyfile, depot_keys, filenames_encrypted, disk, fault, run,
                   mi, work_queue, threads, running, task, errors, errors_lock, report, prev_ok, history>>
    /\ UNCHANGED dvars

\* mutant: the files of a manifest with encrypted filenames are submitted without
\* decrypt_filenames having been called
SubmitUndecrypted ==
    /\ mpc = "manifest"
    /\ mi <= NumManifests
    /\ filenames_encrypted[mi]
    /\ depot_id(mi) \in depot_keys \cup keyfile
    /\ depot_keys' = depot_keys \cup {depot_id(mi)}
    /\ mpc' = "files"
    /\ fi' = 1
    /\ UNCHANGED <<max_workers, keyfile, filenames_encrypted, disk, fault, run, mi, work_queue,
                   threads, running, task, errors, errors_lock, report, prev_ok, history>>
    /\ UNCHANGED dvars

\* get_depot_key finds the key; manifest.decrypt_filenames(key)
DecryptFilenames ==
    /\ mpc = "manifest"
    /\ mi <= NumManifests
    /\ filenames_encrypted[mi]
    /\ depot_id(mi) \in depot_keys \cup keyfile
    /\ depot_keys' = depot_keys \cup {depot_id(mi)}
    /\ filenames_encrypted' = [filenames_encrypted EXCEPT ![mi] = FALSE]
    /\ mpc' = "files"
    /\ fi' = 1
    /\ UNCHANGED <<max_workers, keyfile, disk, fault, run, mi, work_queue, threads,
                   running, task, errors, errors_lock, report, prev_ok, history>>
    /\ UNCHANGED dvars

\* get_depot_key raises KeyError: depotkeys.json has no key for the depot
KeyLookupFails ==
    /\ mpc = "manifest"
    /\ mi <= NumManifests
    /\ filenames_encrypted[mi]
    /\ depot_id(mi) \notin depot_keys \cup keyfile
    /\ mpc' = "unwind"
    /\ UNCHANGED <<max_workers, keyfile, depot_keys, filenames_encrypted, disk, fault, run,
                   mi, fi, work_queue, threads, running, task, errors, errors_lock, report, prev_ok, history>>
    /\ UNCHANGED dvars

\* if depot_file.is_file: executor.submit(save_depot_file, depot_file)
Submit ==
    /\ mpc = "files"
    /\ fi <= Len(FilesOf(mi))
    /\ is_file(FilesOf(mi)[fi])
    /\ work_queue' = Append(work_queue, FilesOf(mi)[fi])
    /\ threads' = AdjustThreadCount(threads)
    /\ task' = [task EXCEPT ![FilesOf(mi)[fi]].pc = "queued"]
    /\ fi' = fi + 1
    /\ UNCHANGED <<max_workers, keyfile, depot_keys, filenames_encrypted, disk, fault, run,
                   mpc, mi, running, errors, errors_lock, report, prev_ok, history>>
    /\ UNCHANGED dvars

\* an entry that is no file is passed over
SkipEntry ==
    /\ mpc = "files"
    /\ fi <= Len(FilesOf(mi))
    /\ ~is_file(FilesOf(mi)[fi])
    /\ fi' = fi + 1
    /\ UNCHANGED <<max_workers, keyfile, depot_keys, filenames_encrypted, disk, fault, run,
                   mpc, mi, work_queue, threads, running, task, errors, errors_lock, report, prev_ok, history>>
    /\ UNCHANGED dvars

\* the manifest's entries are exhausted
EndOfManifest ==
    /\ mpc = "files"
    /\ fi > Len(FilesOf(mi))
    /\ mi' = mi + 1
    /\ mpc' = "manifest"
    /\ UNCHANGED <<max_workers, keyfile, depot_keys, filenames_encrypted, disk, fault, run,
                   fi, work_queue, threads, running, task, errors, errors_lock, report, prev_ok, history>>
    /\ UNCHANGED dvars

\* the manifests are exhausted: the with block is left
LeaveWith ==
    /\ mpc = "manifest"
    /\ mi > NumManifests
    /\ mpc' = "join"
    /\ UNCHANGED <<max_workers, keyfile, depot_keys, filenames_encrypted, disk, fault, run,
                   mi, fi, work_queue, threads, running, task, errors, errors_lock, report, prev_ok, history>>
    /\ UNCHANGED dvars

\* mutant: the executor is shut down without waiting for its tasks
JoinNoWait ==
    /\ mpc \in {"join", "unwind"}
    /\ mpc' = IF mpc = "join" THEN "report" ELSE "raised"
    /\ UNCHANGED <<max_workers, keyfile, depot_keys, filenames_encrypted, disk, fault, run,
                   mi, fi, work_queue, threads, running, task, errors, errors_lock, report, prev_ok, history>>
    /\ UNCHANGED dvars

\* ThreadPoolExecutor.__exit__: shutdown(wait=True) returns once the pool is idle;
\* after an exception in the with block the exception then leaves download_files
Join ==
    /\ mpc \in {"join", "unwind"}
    /\ PoolIdle
    /\ mpc' = IF mpc = "join" THEN "report" ELSE "raised"
    /\ UNCHANGED <<max_workers, keyfile, depot_keys, filenames_encrypted, disk, fault, run,
                   mi, fi, work_queue, threads, running, task, errors, errors_lock, report, prev_ok, history>>
    /\ UNCHANGED dvars

\* if errors: print the failed names and their number, else print success
Report ==
    /\ mpc = "report"
    /\ report' = Append(report, ReportOf(errors))
    /\ mpc' = "returned"
    /\ UNCHANGED <<max_workers, keyfile, depot_keys, filenames_encrypted, disk, fault, run,
                   mi, fi, work_queue, threads, running, task, errors, errors_lock, prev_ok, history>>
    /\ UNCHANGED dvars

\* ------------------------------------------------------ the worker threads
\* mutant: every task resolves its local path from the same filename
StartTaskSharedPath(e) ==
    /\ work_queue # <<>>
    /\ e = Head(work_queue)
    /\ WorkerFree
    /\ work_queue' = Tail(work_queue)
    /\ running' = running \cup {e}
    /\ task' = [task EXCEPT ![e].pc = "start", ![e].path = PlainName(1),
                            ![e].pre = disk[PlainName(1)]]
    /\ UNCHANGED <<max_workers, keyfile, depot_keys, filenames_encrypted, disk, fault, run,
                   mpc, mi, fi, threads, errors, errors_lock, report, prev_ok, history>>
    /\ UNCHANGED dvars

\* a worker thread takes the oldest queued task and calls save_depot_file
StartTask(e) ==
    /\ work_queue # <<>>
    /\ e = Head(work_queue)
    /\ WorkerFree
    /\ work_queue' = Tail(work_queue)
    /\ running' = running \cup {e}
    /\ task' = [task EXCEPT ![e].pc = "start", ![e].path = filename(e),
                            ![e].pre = disk[filename(e)]]
    /\ UNCHANGED <<max_workers, keyfile, depot_keys, filenames_encrypted, disk, fault, run,
                   mpc, mi, fi, threads, errors, errors_lock, report, prev_ok, history>>
    /\ UNCHANGED dvars

\* mutant: the file is opened with 'wb' whether or not it exists
OpenFreshAlways(e) ==
    /\ task[e].pc = "start"
    /\ disk' = [disk EXCEPT ![task[e].path] = <<>>]
    /\ task' = [task EXCEPT ![e].pc = "copy", ![e].mode = "wb"]
    /\ UNCHANGED <<max_workers, keyfile, depot_keys, filenames_encrypted, fault, run,
                   mpc, mi, fi, work_queue, threads, running, errors, errors_lock, report, prev_ok, history>>
    /\ UNCHANGED dvars

\* not os.path.exists(local_path): open(local_path, 'wb') creates the empty file
OpenFresh(e) ==
    /\ task[e].pc = "start"
    /\ disk[task[e].path] = NoFile
    /\ disk' = [disk EXCEPT ![task[e].path] = <<>>]
    /\ task' = [task EXCEPT ![e].pc = "copy", ![e].mode = "wb"]
    /\ UNCHANGED <<max_workers, keyfile, depot_keys, filenames_encrypted, fault, run,
                   mpc, mi, fi, work_queue, threads, running, errors, errors_lock, report, prev_ok, history>>
    /\ UNCHANGED dvars

\* mutant: the resume branch appends without seeking the depot file
OpenResumeNoSeek(e) ==
    /\ task[e].pc = "start"
    /\ disk[task[e].path] # NoFile
    /\ local_size(task[e].path) < size(e)
    /\ task' = [task EXCEPT ![e].pc = "copy", ![e].mode = "ab"]
    /\ UNCHANGED <<max_workers, keyfile, depot_keys, filenames_encrypted, disk, fault, run,
                   mpc, mi, fi, work_queue, threads, running, errors, errors_lock, report, prev_ok, history>>
    /\ UNCHANGED dvars

\* mutant: the resume branch seeks, then opens the file with 'wb', which empties it
OpenResumeTruncate(e) ==
    /\ task[e].pc = "start"
    /\ disk[task[e].path] # NoFile
    /\ local_size(task[e].path) < size(e)
    /\ disk' = [disk EXCEPT ![task[e].path] = <<>>]
    /\ task' = [task EXCEPT ![e].pc = "copy", ![e].mode = "ab",
                            ![e].seek = Append(@, local_size(task[e].path)),
                            ![e].offset = local_size(task[e].path)]
    /\ UNCHANGED <<max_workers, keyfile, depot_keys, filenames_encrypted, fault, run,
                   mpc, mi, fi, work_queue, threads, running, errors, errors_lock, report, prev_ok, history>>
    /\ UNCHANGED dvars

\* local_size < depot_file.size: depot_file.seek(local_size); open(local_path, 'ab')
OpenResume(e) ==
    /\ task[e].pc = "start"
    /\ disk[task[e].path] # NoFile
    /\ local_size(task[e].path) < size(e)
    /\ task' = [task EXCEPT ![e].pc = "copy", ![e].mode = "ab",
                            ![e].seek = Append(@, local_size(task[e].path)),
                            ![e].offset = local_size(task[e].path)]
    /\ UNCHANGED <<max_workers, keyfile, depot_keys, filenames_encrypted, disk, fault, run,
                   mpc, mi, fi, work_queue, threads, running, errors, errors_lock, report, prev_ok, history>>
    /\ UNCHANGED dvars

\* local_size >= depot_file.size: open(local_path, 'rb') for the hash check
OpenVerify(e) ==
    /\ task[e].pc = "start"
    /\ disk[task[e].path] # NoFile
    /\ local_size(task[e].path) >= size(e)
    /\ task' = [task EXCEPT ![e].pc = "verify", ![e].mode = "rb"]
    /\ UNCHANGED <<max_workers, keyfile, depot_keys, filenames_encrypted, disk, fault, run,
                   mpc, mi, fi, work_queue, threads, running, errors, errors_lock, report, prev_ok, history>>
    /\ UNCHANGED dvars

\* mutant: the chunk read is written at the start of the file instead of its end
CopyChunkAtStart(e) ==
    /\ task[e].pc = "copy"
    /\ task[e].offset < size(e)
    /\ ~ReadFails(e, task[e].offset)
    /\ disk' = [disk EXCEPT ![task[e].path] =
                   SubSeq(Content(e), task[e].offset + 1, ReadEnd(e, task[e].offset)) \o @]
    /\ task' = [task EXCEPT ![e].offset = ReadEnd(e, @),
                            ![e].reads = @ + 1,
                            ![e].written = @ + (ReadEnd(e, task[e].offset) - task[e].offset)]
    /\ UNCHANGED <<max_workers, keyfile, depot_keys, filenames_encrypted, fault, run,
                   mpc, mi, fi, work_queue, threads, running, errors, errors_lock, report, prev_ok, history>>
    /\ UNCHANGED dvars

\* chunk = depot_file.read(16384) returns bytes; f.write(chunk)
CopyChunk(e) ==
    /\ task[e].pc = "copy"
    /\ task[e].offset < size(e)
    /\ ~ReadFails(e, task[e].offset)
    /\ disk' = [disk EXCEPT ![task[e].path] =
                   @ \o SubSeq(Content(e), task[e].offset + 1, ReadEnd(e, task[e].offset))]
    /\ task' = [task EXCEPT ![e].offset = ReadEnd(e, @),
                            ![e].reads = @ + 1,
                            ![e].written = @ + (ReadEnd(e, task[e].offset) - task[e].offset)]
    /\ UNCHANGED <<max_workers, keyfile, depot_keys, filenames_encrypted, fault, run,
                   mpc, mi, fi, work_queue, threads, running, errors, errors_lock, report, prev_ok, history>>
    /\ UNCHANGED dvars

\* depot_file.read returns b'' at the end of the content: the file is closed, the
\* task returns
CopyEnd(e) ==
    /\ task[e].pc = "copy"
    /\ task[e].offset >= size(e)
    /\ task' = [task EXCEPT ![e].pc = "done", ![e].reads = @ + 1]
    /\ running' = running \ {e}
    /\ UNCHANGED <<max_workers, keyfile, depot_keys, filenames_encrypted, disk, fault, run,
                   mpc, mi, fi, work_queue, threads, errors, errors_lock, report, prev_ok, history>>
    /\ UNCHANGED dvars

\* mutant: the handler removes the partial file of a failed download
ReadRaisesRemovesPartial(e) ==
    /\ task[e].pc = "copy"
    /\ task[e].offset < size(e)
    /\ ReadFails(e, task[e].offset)
    /\ disk' = [disk EXCEPT ![task[e].path] = NoFile]
    /\ task' = [task EXCEPT ![e].pc = "except", ![e].reads = @ + 1, ![e].raised = TRUE]
    /\ UNCHANGED <<max_workers, keyfile, depot_keys, filenames_encrypted, fault, run,
                   mpc, mi, fi, work_queue, threads, running, errors, errors_lock, report,
                   prev_ok, history>>
    /\ UNCHANGED dvars

\* mutant: save_depot_file has no try/except, the exception ends the task unrecorded
ReadRaisesUncaught(e) ==
    /\ task[e].pc = "copy"
    /\ task[e].offset < size(e)
    /\ ReadFails(e, task[e].offset)
    /\ task' = [task EXCEPT ![e].pc = "done", ![e].reads = @ + 1, ![e].raised = TRUE]
    /\ running' = running \ {e}
    /\ UNCHANGED <<max_workers, keyfile, depot_keys, filenames_encrypted, disk, fault, run,
                   mpc, mi, fi, work_queue, threads, errors, errors_lock, report, prev_ok, history>>
    /\ UNCHANGED dvars

\* depot_file.read raises: the with block closes the file, the handler is entered
ReadRaises(e) ==
    /\ task[e].pc = "copy"
    /\ task[e].offset < size(e)
    /\ ReadFails(e, task[e].offset)
    /\ task' = [task EXCEPT ![e].pc = "except", ![e].reads = @ + 1, ![e].raised = TRUE]
    /\ UNCHANGED <<max_workers, keyfile, depot_keys, filenames_encrypted, disk, fault, run,
                   mpc, mi, fi, work_queue, threads, running, errors, errors_lock, report, prev_ok, history>>
    /\ UNCHANGED dvars

\* the local file's SHA-1 equals sha_content: the task returns
VerifyMatch(e) ==
    /\ task[e].pc = "verify"
    /\ sha1(disk[task[e].path]) = sha_content(e)
    /\ task' = [task EXCEPT ![e].pc = "done"]
    /\ running' = running \ {e}
    /\ UNCHANGED <<max_workers, keyfile, depot_keys, filenames_encrypted, disk, fault, run,
                   mpc, mi, fi, work_queue, threads, errors, errors_lock, report, prev_ok, history>>
    /\ UNCHANGED dvars

\* mutant: a hash mismatch removes the file and downloads it again
VerifyMismatchRedownload(e) ==
    /\ task[e].pc = "verify"
    /\ sha1(disk[task[e].path]) # sha_content(e)
    /\ disk' = [disk EXCEPT ![task[e].path] = <<>>]
    /\ task' = [task EXCEPT ![e].pc = "copy", ![e].mode = "wb"]
    /\ UNCHANGED <<max_workers, keyfile, depot_keys, filenames_encrypted, fault, run,
                   mpc, mi, fi, work_queue, threads, running, errors, errors_lock, report, prev_ok, history>>
    /\ UNCHANGED dvars

\* checksum.digest() != sha_content: raise ValueError
VerifyMismatch(e) ==
    /\ task[e].pc = "verify"
    /\ sha1(disk[task[e].path]) # sha_content(e)
    /\ task' = [task EXCEPT ![e].pc = "except", ![e].raised = TRUE]
    /\ UNCHANGED <<max_workers, keyfile, depot_keys, filenames_encrypted, disk, fault, run,
                   mpc, mi, fi, work_queue, threads, running, errors, errors_lock, report, prev_ok, history>>
    /\ UNCHANGED dvars

\* mutant: the handler appends without taking the lock
AcquireNoLock(e) ==
    /\ task[e].pc = "except"
    /\ errors_lock' = e
    /\ task' = [task EXCEPT ![e].pc = "append"]
    /\ UNCHANGED <<max_workers, keyfile, depot_keys, filenames_encrypted, disk, fault, run,
                   mpc, mi, fi, work_queue, threads, running, errors, report, prev_ok, history>>
    /\ UNCHANGED dvars

\* except Exception: with errors_lock - the lock is acquired
AcquireLock(e) ==
    /\ task[e].pc = "except"
    /\ errors_lock = 0
    /\ errors_lock' = e
    /\ task' = [task EXCEPT ![e].pc = "append"]
    /\ UNCHANGED <<max_workers, keyfile, depot_keys, filenames_encrypted, disk, fault, run,
                   mpc, mi, fi, work_queue, threads, running, errors, report, prev_ok, history>>
    /\ UNCHANGED dvars

\* errors.append(depot_file.filename); the lock is released, the task returns
AppendError(e) ==
    /\ task[e].pc = "append"
    /\ errors' = Append(errors, filename(e))
    /\ errors_lock' = 0
    /\ task' = [task EXCEPT ![e].pc = "done"]
    /\ running' = running \ {e}
    /\ UNCHANGED <<max_workers, keyfile, depot_keys, filenames_encrypted, disk, fault, run,
                   mpc, mi, fi, work_queue, threads, report, prev_ok, history>>
    /\ UNCHANGED dvars

\* ---------------------------------------------------------- specification
Next ==
    \/ Call
    \/ PlainManifest
    \/ DecryptFilenames
    \/ KeyLookupFails
    \/ Submit
    \/ SkipEntry
    \/ EndOfManifest
    \/ LeaveWith
    \/ Join
    \/ Report
    \/ \E e \in Entry : StartTask(e)
    \/ \E e \in Entry : OpenFresh(e)
    \/ \E e \in Entry : OpenResume(e)
    \/ \E e \in Entry : OpenVerify(e)
    \/ \E e \in Entry : CopyChunk(e)
    \/ \E e \in Entry : CopyEnd(e)
    \/ \E e \in Entry : ReadRaises(e)
    \/ \E e \in Entry : VerifyMatch(e)
    \/ \E e \in Entry : VerifyMismatch(e)
    \/ \E e \in Entry : AcquireLock(e)
    \/ \E e \in Entry : AppendError(e)

Spec == Init /\ [][Next]_vars

\* ---------------------------------------------------------------- get_chunk
\* get_chunk for a chunk that is in self._chunk_cache: the cached bytes are returned
GetChunkCached(k) ==
    /\ ncalls < MaxCalls
    /\ chunk_cache[k] # <<>>
    /\ ret' = [key |-> k, ok |-> TRUE, err |-> "none", data |-> chunk_cache[k][1],
               decoder |-> "none"]
    /\ ncalls' = ncalls + 1
    /\ UNCHANGED <<cdn, chunk_cache, keyfile, depot_keys, calls>>
    /\ UNCHANGED fvars

\* get_chunk for a chunk not cached: cdn_cmd raises
GetChunkFetchFails(k) ==
    /\ ncalls < MaxCalls
    /\ chunk_cache[k] = <<>>
    /\ ret' = [key |-> k, ok |-> FALSE, err |-> "HTTPError", data |-> <<>>, decoder |-> "none"]
    /\ ncalls' = ncalls + 1
    /\ UNCHANGED <<cdn, chunk_cache, keyfile, depot_keys, calls>>
    /\ UNCHANGED fvars

\* get_chunk for a chunk not cached: get_depot_key raises KeyError
GetChunkNoKey(k) ==
    /\ ncalls < MaxCalls
    /\ chunk_cache[k] = <<>>
    /\ ChunkDepot \notin depot_keys \cup keyfile
    /\ ret' = [key |-> k, ok |-> FALSE, err |-> "KeyError", data |-> <<>>, decoder |-> "none"]
    /\ ncalls' = ncalls + 1
    /\ UNCHANGED <<cdn, chunk_cache, keyfile, depot_keys, calls>>
    /\ UNCHANGED fvars

\* get_chunk for a chunk not cached: the frame is fetched, decrypted and decoded;
\* the decoded bytes are stored in the cache and returned, or the decoder's
\* exception leaves get_chunk
GetChunkDecode(k) ==
    LET r == DecodeFrame(cdn[k]) IN
    /\ ncalls < MaxCalls
    /\ chunk_cache[k] = <<>>
    /\ ChunkDepot \in depot_keys \cup keyfile
    /\ depot_keys' = depot_keys \cup {ChunkDepot}
    /\ chunk_cache' = IF r.ok THEN [chunk_cache EXCEPT ![k] = <<r.data>>] ELSE chunk_cache
    /\ ret' = [key |-> k, ok |-> r.ok, err |-> r.err, data |-> r.data, decoder |-> r.decoder]
    /\ ncalls' = ncalls + 1
    /\ UNCHANGED <<cdn, keyfile, calls>>
    /\ UNCHANGED fvars

\* a client whose content servers hold any frame for chunk 1
InitChunk ==
    /\ max_workers = 1
    /\ keyfile \in SUBSET {ChunkDepot}
    /\ depot_keys = {}
    /\ filenames_encrypted = [m \in Manifest |-> EncryptedAtLoad(m)]
    /\ disk = [p \in Path |-> NoFile]
    /\ fault = [e \in Entry |-> {}]
    /\ run = 0
    /\ mpc = "idle"
    /\ mi = 1
    /\ fi = 1
    /\ work_queue = <<>>
    /\ threads = 0
    /\ running = {}
    /\ task = [e \in Entry |-> FreshTask]
    /\ errors = <<>>
    /\ errors_lock = 0
    /\ report = <<>>
    /\ prev_ok = {}
    /\ history = [e \in Entry |-> <<>>]
    /\ cdn \in {[k \in ChunkKey |-> IF k = 1 THEN f ELSE SampleFrame(k)] : f \in Frames}
    /\ chunk_cache = [k \in ChunkKey |-> <<>>]
    /\ ret = NoRet
    /\ ncalls = 0
    /\ calls = [t \in 1..NumThreads |-> IdleCall]

NextChunk ==
    \/ \E k \in ChunkKey : GetChunkCached(k)
    \/ \E k \in ChunkKey : GetChunkFetchFails(k)
    \/ \E k \in ChunkKey : GetChunkNoKey(k)
    \/ \E k \in ChunkKey : GetChunkDecode(k)

SpecChunk == InitChunk /\ [][NextChunk]_vars

\* ------------------------------------------ get_chunk called by several threads
\* the worker threads that call get_chunk (through depot_file.read)
Thread == 1..NumThreads

\* the frames of chunk 1 under concurrent calls: a VZ frame, a VSZ frame that is
\* cut to its declared size, an archive, a frame with a wrong checksum, a frame
\* that is too short, and bytes that are no archive
RaceFrames ==
    {VZFrame(<<93, 0, 0, 1, 0>>, <<2, 1>>, crc32(<<1, 1>>), 2),
     VSZFrame(<<2, 2>>, crc32(<<2>>), 1),
     ZipFrame(<<<<1, 2>>, <<1, 1>>>>),
     VZFrame(<<93, 0, 0, 1, 0>>, <<2, 1>>, (crc32(<<1, 1>>) + 1) % CrcModulus, 2),
     VSZ_MAGIC \o <<0, 0, 0>>,
     <<7, 7, 7>>}

\* mutant: the result is stored in the cache before the decoder's outcome is known
RaceDecodeStoresFirst(t) ==
    LET k == calls[t].key
        r == DecodeFrame(cdn[k]) IN
    /\ calls[t].pc = "fetch"
    /\ ChunkDepot \in depot_keys \cup keyfile
    /\ depot_keys' = depot_keys \cup {ChunkDepot}
    /\ chunk_cache' = [chunk_cache EXCEPT ![k] = <<r.data>>]
    /\ calls' = [calls EXCEPT ![t] =
                   IF r.ok THEN [@ EXCEPT !.pc = "store", !.data = r.data, !.fetched = TRUE]
                   ELSE [@ EXCEPT !.pc = "failed", !.err = r.err, !.fetched = TRUE]]
    /\ UNCHANGED <<cdn, ret, ncalls, keyfile>>
    /\ UNCHANGED fvars

\* mutant: the store extends the bytes cached under the key instead of replacing
\* the entry
RaceStoreExtends(t) ==
    /\ calls[t].pc = "store"
    /\ chunk_cache' = [chunk_cache EXCEPT ![calls[t].key] =
                         IF @ = <<>> THEN <<calls[t].data>> ELSE <<@[1] \o calls[t].data>>]
    /\ calls' = [calls EXCEPT ![t].pc = "return"]
    /\ UNCHANGED <<cdn, ret, ncalls, keyfile, depot_keys>>
    /\ UNCHANGED fvars

\* thread t calls get_chunk for chunk k: if (depot_id, chunk_id) not in
\* self._chunk_cache
RaceCheck(t, k) ==
    /\ calls[t].pc \in {"idle", "done", "failed"}
    /\ ncalls < MaxCalls
    /\ ncalls' = ncalls + 1
    /\ calls' = [calls EXCEPT ![t] =
                   [IdleCall EXCEPT !.key = k,
                                    !.pc = IF chunk_cache[k] # <<>> THEN "return" ELSE "fetch"]]
    /\ UNCHANGED <<cdn, chunk_cache, ret, keyfile, depot_keys>>
    /\ UNCHANGED fvars

\* the key was not cached: cdn_cmd raises
RaceFetchFails(t) ==
    /\ calls[t].pc = "fetch"
    /\ calls' = [calls EXCEPT ![t].pc = "failed", ![t].err = "HTTPError"]
    /\ ret' = [key |-> calls[t].key, ok |-> FALSE, err |-> "HTTPError", data |-> <<>>,
               decoder |-> "none"]
    /\ UNCHANGED <<cdn, chunk_cache, ncalls, keyfile, depot_keys>>
    /\ UNCHANGED fvars

\* the key was not cached: get_depot_key raises KeyError
RaceNoKey(t) ==
    /\ calls[t].pc = "fetch"
    /\ ChunkDepot \notin depot_keys \cup keyfile
    /\ calls' = [calls EXCEPT ![t].pc = "failed", ![t].err = "KeyError"]
    /\ ret' = [key |-> calls[t].key, ok |-> FALSE, err |-> "KeyError", data |-> <<>>,
               decoder |-> "none"]
    /\ UNCHANGED <<cdn, chunk_cache, ncalls, keyfile, depot_keys>>
    /\ UNCHANGED fvars

\* the key was not cached: the frame is fetched, decrypted and decoded into the
\* local variable data, or the decoder's exception leaves get_chunk
RaceDecode(t) ==
    LET k == calls[t].key
        r == DecodeFrame(cdn[k]) IN
    /\ calls[t].pc = "fetch"
    /\ ChunkDepot \in depot_keys \cup keyfile
    /\ depot_keys' = depot_keys \cup {ChunkDepot}
    /\ calls' = [calls EXCEPT ![t] =
                   IF r.ok THEN [@ EXCEPT !.pc = "store", !.data = r.data, !.fetched = TRUE]
                   ELSE [@ EXCEPT !.pc = "failed", !.err = r.err, !.fetched = TRUE]]
    /\ ret' = IF r.ok THEN ret
              ELSE [key |-> k, ok |-> FALSE, err |-> r.err, data |-> <<>>, decoder |-> r.decoder]
    /\ UNCHANGED <<cdn, chunk_cache, ncalls, keyfile>>
    /\ UNCHANGED fvars

\* self._chunk_cache[(depot_id, chunk_id)] = data
RaceStore(t) ==
    /\ calls[t].pc = "store"
    /\ chunk_cache' = [chunk_cache EXCEPT ![calls[t].key] = <<calls[t].data>>]
    /\ calls' = [calls EXCEPT ![t].pc = "return"]
    /\ UNCHANGED <<cdn, ret, ncalls, keyfile, depot_keys>>
    /\ UNCHANGED fvars

\* return self._chunk_cache[(depot_id, chunk_id)]
RaceReturn(t) ==
    /\ calls[t].pc = "return"
    /\ calls' = [calls EXCEPT ![t].pc = "done", ![t].ok = TRUE,
                              ![t].data = chunk_cache[calls[t].key][1]]
    /\ ret' = [key |-> calls[t].key, ok |-> TRUE, err |-> "none",
               data |-> chunk_cache[calls[t].key][1],
               decoder |-> IF calls[t].fetched THEN DecodeFrame(cdn[calls[t].key]).decoder
                           ELSE "none"]
    /\ UNCHANGED <<cdn, chunk_cache, ncalls, keyfile, depot_keys>>
    /\ UNCHANGED fvars

\* a client whose content servers hold one of RaceFrames for chunk 1
InitRace ==
    /\ max_workers = NumThreads
    /\ keyfile \in SUBSET {ChunkDepot}
    /\ depot_keys = {}
    /\ filenames_encrypted = [m \in Manifest |-> EncryptedAtLoad(m)]
    /\ disk = [p \in Path |-> NoFile]
    /\ fault = [e \in Entry |-> {}]
    /\ run = 0
    /\ mpc = "idle"
    /\ mi = 1
    /\ fi = 1
    /\ work_queue = <<>>
    /\ threads = 0
    /\ running = {}
    /\ task = [e \in Entry |-> FreshTask]
    /\ errors = <<>>
    /\ errors_lock = 0
    /\ report = <<>>
    /\ prev_ok = {}
    /\ history = [e \in Entry |-> <<>>]
    /\ cdn \in {[k \in ChunkKey |-> IF k = 1 THEN f ELSE SampleFrame(k)] : f \in RaceFrames}
    /\ chunk_cache = [k \in ChunkKey |-> <<>>]
    /\ ret = NoRet
    /\ ncalls = 0
    /\ calls = [t \in Thread |-> IdleCall]

NextRace ==
    \/ \E t \in Thread, k \in ChunkKey : RaceCheck(t, k)
    \/ \E t \in Thread : RaceFetchFails(t)
    \/ \E t \in Thread : RaceNoKey(t)
    \/ \E t \in Thread : RaceDecode(t)
    \/ \E t \in Thread : RaceStore(t)
    \/ \E t \in Thread : RaceReturn(t)

SpecRace == InitRace /\ [][NextRace]_vars

\* ------------------------------------------------ claims: download_files
\* the failure list names entry e
InErrors(e) == \E i \in 1..Len(errors) : errors[i] = PlainName(e)

\* entries whose task has been submitted in this run, and those that have returned
Scheduled == {e \in Entry : task[e].pc # "unsubmitted"}
Started == {e \in Entry : task[e].pc \notin {"unsubmitted", "queued"}}
Finished == {e \in Entry : task[e].pc = "done"}

\* s is the first Len(s) bytes of entry e's content
IsPrefix(s, e) == s # NoFile /\ Len(s) <= size(e) /\ s = SubSeq(Content(e), 1, Len(s))

\* what entry e's own inputs (its local file before the task, its read faults)
\* make its task do: raise or not
OwnFailure(e) ==
    IF task[e].pre = NoFile THEN fault[e] # {}
    ELSE IF Len(task[e].pre) < size(e) THEN \E k \in fault[e] : k >= Len(task[e].pre)
    ELSE sha1(task[e].pre) # sha_content(e)

\* the pool has been joined: download_files is past its with block
Joined == mpc \in {"report", "returned", "raised"}

\* C1: partial-failure isolation.  Once the pool is joined, every scheduled entry
\* has returned; an entry raised exactly when its own inputs make it fail, whatever
\* the other tasks did; the failure list holds exactly the names of the tasks that
\* raised, each once; and every task that did not raise left a fully written file
\* (the declared size, the bytes it wrote being the content's, the whole content
\* when it started from nothing or from a prefix of the content).
C1_FailureIsolation ==
    Joined =>
      /\ \A e \in Scheduled :
           /\ task[e].pc = "done"
           /\ task[e].raised <=> OwnFailure(e)
           /\ task[e].raised <=> InErrors(e)
           /\ ~task[e].raised =>
                /\ disk[PlainName(e)] # NoFile
                /\ Len(disk[PlainName(e)]) = size(e)
                /\ task[e].pre # NoFile =>
                     SubSeq(disk[PlainName(e)], Len(task[e].pre) + 1, size(e))
                       = SubSeq(Content(e), Len(task[e].pre) + 1, size(e))
                /\ (task[e].pre = NoFile \/ IsPrefix(task[e].pre, e)) =>
                     disk[PlainName(e)] = Content(e)
      /\ Len(errors) = Cardinality({e \in Scheduled : task[e].raised})
      /\ \A i \in 1..Len(errors) : \E e \in Scheduled : task[e].raised /\ errors[i] = PlainName(e)

\* C1 witness: after the join, a task whose read raised is the only name in the
\* failure list while another task downloaded its file completely.
C1_Witness ==
    /\ Joined
    /\ \E a, b \in Scheduled :
         /\ a # b
         /\ task[a].raised /\ task[a].reads > 0
         /\ ~task[b].raised /\ task[b].written = size(b)
         /\ disk[PlainName(b)] = Content(b)
         /\ errors = <<PlainName(a)>>

\* C2: a report is always produced.  Whenever a run of download_files is over, it
\* has printed one report; the report names every task that raised, and it says
\* success exactly when the failure list is empty.
C2_ReportAlwaysProduced ==
    mpc \in {"returned", "raised"} =>
      /\ Len(report) = 1
      /\ \A e \in Scheduled :
           task[e].raised => \E i \in 1..Len(report[1].failed) : report[1].failed[i] = PlainName(e)
      /\ report[1].success <=> errors = <<>>

\* C3: join barrier.  From the moment download_files reads the failure list for
\* its report, every scheduled task has returned: none is queued or executing,
\* none holds the lock or waits for it, so no append can follow.
C3_JoinBarrier ==
    mpc \in {"report", "returned"} =>
      /\ work_queue = <<>>
      /\ running = {}
      /\ errors_lock = 0
      /\ \A e \in Entry : task[e].pc \in {"unsubmitted", "done"}
      /\ \A e \in Entry : is_file(e) => task[e].pc = "done"
      /\ \A i \in 1..Len(report) : report[i].failed = errors

\* C3 witness: the report step is reached after two tasks ran, one of which failed.
C3_Witness ==
    /\ mpc = "report"
    /\ Cardinality(Finished) >= 2
    /\ Len(errors) = 1

\* C4 as claimed: after save_depot_file has handled an entry through any branch,
\* the local file is at most the declared size.
C4_SizeNeverExceeds ==
    \A e \in Finished : Len(disk[task[e].path]) <= size(e)

\* C4 amended: save_depot_file never makes a file longer than the declared size.
\* At every point of a task the local file is at most the declared size, or it is
\* the longer file the task found, which the hash-check branch leaves as it is.
C4_NeverGrowsPastSize ==
    \A e \in Started :
      task[e].pc # "start" =>
        /\ disk[task[e].path] # NoFile
        /\ \/ Len(disk[task[e].path]) <= size(e)
           \/ /\ task[e].mode = "rb"
              /\ disk[task[e].path] = task[e].pre
              /\ Len(task[e].pre) > size(e)

\* C4 witness: one task has resumed a file up to its declared size and no further,
\* another has checked a file longer than declared and left it.
C4_Witness ==
    \E a, b \in Finished :
      /\ task[a].mode = "ab" /\ task[a].written > 0 /\ Len(disk[task[a].path]) = size(a)
      /\ task[b].mode = "rb" /\ Len(disk[task[b].path]) > size(b) /\ task[b].raised

\* the reads of a resume from N bytes all return data
ResumeReadsSucceed(e) == \A k \in fault[e] : k < Len(task[e].pre)

\* C5: resume correctness.  A task that finds a local file of N < size bytes equal
\* to the first N bytes of the content takes the append branch and seeks the handle
\* to N, once; when the reads of the remaining bytes return data, it ends having
\* appended exactly size - N bytes, recorded no failure, and the file's SHA-1 is
\* the expected content hash.
C5_ResumeCorrect ==
    \A e \in Started :
      (task[e].pc # "start" /\ IsPrefix(task[e].pre, e) /\ Len(task[e].pre) < size(e)) =>
        /\ task[e].mode = "ab"
        /\ task[e].seek = <<Len(task[e].pre)>>
        /\ (task[e].pc = "done" /\ ResumeReadsSucceed(e)) =>
             /\ task[e].written = size(e) - Len(task[e].pre)
             /\ disk[task[e].path] = task[e].pre \o SubSeq(Content(e), Len(task[e].pre) + 1, size(e))
             /\ ~task[e].raised
             /\ ~InErrors(e)
             /\ sha1(disk[task[e].path]) = sha_content(e)

\* C5 witness: a task has resumed from a non-empty proper prefix and returned.
C5_Witness ==
    \E e \in Finished :
      /\ IsPrefix(task[e].pre, e)
      /\ Len(task[e].pre) > 0
      /\ Len(task[e].pre) < size(e)
      /\ ResumeReadsSucceed(e)
      /\ fault[e] # {}
      /\ sha1(disk[task[e].path]) = sha_content(e)

\* C6: idempotence.  In a run after one whose task completed the file (it returned
\* without raising and the file holds the content), the task for the same entry
\* only reads the file: nothing is written, the handle is not used, the content is
\* what it was, and the entry is not in the failure list.
C6_Idempotent ==
    \A e \in Started :
      (run >= 2 /\ e \in prev_ok /\ task[e].pre = Content(e) /\ task[e].pc # "start") =>
        /\ task[e].mode = "rb"
        /\ task[e].written = 0
        /\ task[e].reads = 0
        /\ disk[task[e].path] = task[e].pre
        /\ ~task[e].raised
        /\ ~InErrors(e)
        /\ task[e].pc \in {"verify", "done"}

\* C6 witness: the second run's task has returned for a file the first run
\* completed.
C6_Witness ==
    \E e \in Finished :
      /\ run >= 2
      /\ e \in prev_ok
      /\ task[e].pre = Content(e)
      /\ disk[task[e].path] = Content(e)
      /\ mpc = "returned"
      /\ report[1].success

\* C7: bounded parallelism.  At most max_workers tasks execute at a time, so at
\* most max_workers local files are open and reads in flight, and the executor
\* never has more than max_workers threads.
C7_BoundedParallelism ==
    /\ Cardinality(running) <= max_workers
    /\ threads <= max_workers
    /\ Cardinality({e \in Entry : task[e].pc \in {"start", "copy", "verify", "except", "append"}})
         <= max_workers
    /\ {e \in Entry : task[e].pc \in {"start", "copy", "verify", "except", "append"}} = running

\* C7 witness: max_workers tasks execute while a further task waits in the queue.
C7_Witness ==
    /\ Cardinality(running) = max_workers
    /\ work_queue # <<>>
    /\ \E e \in running : task[e].pc = "copy"

\* C10: the already-complete branch.  A task that finds a local file of at least
\* the declared size takes the hash-check branch: it never changes the file, never
\* reads or seeks the depot file handle, and it ends with the entry in the failure
\* list exactly when the file's SHA-1 differs from the expected content hash.
C10_VerifyOnly ==
    \A e \in Started :
      (task[e].pc # "start" /\ task[e].pre # NoFile /\ Len(task[e].pre) >= size(e)) =>
        /\ task[e].mode = "rb"
        /\ disk[task[e].path] = task[e].pre
        /\ task[e].written = 0
        /\ task[e].reads = 0
        /\ task[e].seek = <<>>
        /\ task[e].offset = 0
        /\ task[e].pc = "done" =>
             /\ task[e].raised <=> sha1(task[e].pre) # sha_content(e)
             /\ InErrors(e) <=> sha1(task[e].pre) # sha_content(e)

\* C10 witness: a task has found a file of the declared size with other content,
\* recorded it as failed and left it as it was.
C10_Witness ==
    \E e \in Finished :
      /\ task[e].pre # NoFile
      /\ Len(task[e].pre) = size(e)
      /\ task[e].pre # Content(e)
      /\ InErrors(e)
      /\ disk[task[e].path] = task[e].pre

\* ------------------------------------------------------ claims: get_chunk
\* the frame of the chunk the last call asked for
LastFrame == cdn[ret.key]

\* the last call obtained the frame: it was made, and neither the fetch nor the key
\* lookup failed
GotFrame == ret.key # 0 /\ ret.err \notin {"HTTPError", "KeyError"}

\* the frame starts with the magic b'VZa', with b'VSZa'
HasVZ(f) == Len(f) >= 3 /\ SubSeq(f, 1, 3) = <<86, 90, 97>>
HasVSZ(f) == Len(f) >= 4 /\ SubSeq(f, 1, 4) = <<86, 83, 90, 97>>

\* the footer of a framed chunk: the eight bytes at [-10:-2) of a VZ frame, at
\* [-15:-7) of a VSZ frame, the checksum in the first four and the decompressed
\* size in the last four
Footer(f) == IF HasVZ(f) THEN PySlice(f, -10, -2) ELSE PySlice(f, -15, -7)
StoredChecksum(f) == LE32(SubSeq(Footer(f), 1, 4))
DeclaredSize(f) == LE32(SubSeq(Footer(f), 5, 8))

\* what the frame's decompressor makes of its payload, and whether the decoding
\* of f gets as far as the checksum comparison
Decompressed(f) ==
    IF HasVZ(f) THEN LzmaDecompress(PySlice(f, 12, -9)) ELSE ZstdDecompress(PySlice(f, 8, -15))
ReachesCrc(f) ==
    /\ HasVZ(f) => PropsValid(PySlice(f, 7, 12))
    /\ Len(Footer(f)) = 8
    /\ Decompressed(f).ok

\* a CRC32 mismatch makes get_chunk fail with the integrity error, nothing is
\* returned or cached
CrcMismatchFails ==
    (/\ GotFrame
     /\ HasVZ(LastFrame) \/ HasVSZ(LastFrame)
     /\ ReachesCrc(LastFrame)
     /\ crc32(PyHead(Decompressed(LastFrame).data, DeclaredSize(LastFrame)))
          # StoredChecksum(LastFrame)) =>
      /\ ~ret.ok
      /\ ret.err = "ValueError"
      /\ ret.data = <<>>
      /\ chunk_cache[ret.key] = <<>>

\* C8 as claimed: for a frame with prefix VZa or VSZa, whatever get_chunk returns
\* has exactly the declared decompressed size and the CRC32 stored in the footer,
\* and a CRC32 mismatch makes get_chunk fail with the integrity error.
C8_ExactSizeAndCrc ==
    /\ (ret.ok /\ (HasVZ(LastFrame) \/ HasVSZ(LastFrame))) =>
         /\ Len(ret.data) = DeclaredSize(LastFrame)
         /\ crc32(ret.data) = StoredChecksum(LastFrame)
    /\ CrcMismatchFails

\* C8 amended: for a frame with prefix VZa or VSZa, whatever get_chunk returns is
\* the decompressed bytes cut to the declared size - never padded, so shorter than
\* declared when the stream decompresses to less - and its CRC32 is the checksum
\* stored in the footer; a CRC32 mismatch makes get_chunk fail with the integrity
\* error.
C8_TruncatedAndCrc ==
    /\ (ret.ok /\ (HasVZ(LastFrame) \/ HasVSZ(LastFrame))) =>
         /\ ReachesCrc(LastFrame)
         /\ Len(ret.data) = Min(DeclaredSize(LastFrame), Len(Decompressed(LastFrame).data))
         /\ ret.data = SubSeq(Decompressed(LastFrame).data, 1, Len(ret.data))
         /\ crc32(ret.data) = StoredChecksum(LastFrame)
         /\ chunk_cache[ret.key] = <<ret.data>>
    /\ CrcMismatchFails

\* C8 witness: a framed chunk whose stream decompresses to more than the declared
\* size has been returned, cut to that size.
C8_Witness ==
    /\ ret.ok
    /\ HasVSZ(LastFrame)
    /\ DeclaredSize(LastFrame) > 0
    /\ Len(Decompressed(LastFrame).data) > DeclaredSize(LastFrame)
    /\ Len(ret.data) = DeclaredSize(LastFrame)

\* C9: format dispatch.  Every frame get_chunk decodes goes to the one decoder its
\* prefix names: VZa to LZMA, VSZa to Zstandard, anything else to the archive
\* reader, whose result is the archive's first entry as the reader gives it, with
\* no checksum comparison of get_chunk's own.
C9_Dispatch ==
    /\ GotFrame /\ ~ret.ok => ret.decoder # "none"
    /\ ret.decoder # "none" =>
         /\ GotFrame
         /\ ret.decoder = IF HasVZ(LastFrame) THEN "lzma"
                          ELSE IF HasVSZ(LastFrame) THEN "zstd"
                          ELSE "zip"
    /\ (GotFrame /\ ~HasVZ(LastFrame) /\ ~HasVSZ(LastFrame)) =>
         /\ ret.err # "ValueError"
         /\ ret.ok <=> (ZipOpens(LastFrame) /\ filelist(LastFrame) # <<>>
                          /\ Inflate(filelist(LastFrame)[1]).ok)
         /\ ret.ok => ret.data = Inflate(filelist(LastFrame)[1]).data

\* C9 witness: an archive of two different entries has been decoded to the bytes
\* of its first entry.
C9_Witness ==
    /\ ret.ok
    /\ ret.decoder = "zip"
    /\ Len(filelist(LastFrame)) = 2
    /\ filelist(LastFrame)[1] # filelist(LastFrame)[2]
    /\ ret.data # <<>>
    /\ ret.data = Runs(filelist(LastFrame)[1])

\* the shortest frame that holds header, payload and footer at the offsets get_chunk
\* slices: 22 bytes for VZa (12 of header, 10 of footer), 23 for VSZa (8 and 15)
VZFrameMin == Len(VZFrame(<<93, 0, 0, 1, 0>>, <<>>, 0, 0))
VSZFrameMin == Len(VSZFrame(<<>>, 0, 0))

\* a frame with the magic prefix that is too short for its fields: the slices of
\* header, payload and footer overlap or come out short
TooShort(f) == (HasVZ(f) /\ Len(f) < VZFrameMin) \/ (~HasVZ(f) /\ HasVSZ(f) /\ Len(f) < VSZFrameMin)

\* C11: malformed frame handling.  For a frame with prefix VZa or VSZa that is too
\* short to hold header, payload and footer at the sliced offsets, get_chunk fails:
\* it returns no value and caches nothing.
C11_MalformedFrameFails ==
    (GotFrame /\ TooShort(LastFrame)) =>
      /\ ~ret.ok
      /\ ret.err # "none"
      /\ chunk_cache[ret.key] = <<>>

\* ------------------------------------------- claims: the shared failure list
\* the tasks inside "with errors_lock", the tasks whose handler has returned
InAppend == {e \in Entry : task[e].pc = "append"}
Recorded == {e \in Entry : task[e].raised /\ task[e].pc = "done"}

\* at most one task is inside the append, and it is the lock's holder; the list
\* holds one name for every task whose handler has returned, none twice
ExclusiveAppend ==
    /\ Cardinality(InAppend) <= 1
    /\ \A e \in Entry : e \in InAppend <=> errors_lock = e
    /\ Len(errors) = Cardinality(Recorded)
    /\ \A e \in Recorded : InErrors(e)
    /\ \A i, j \in 1..Len(errors) : errors[i] = errors[j] => i = j
    /\ Joined => Len(errors) = Cardinality({e \in Entry : task[e].raised})

\* within a run the list changes only by the lock's holder appending its filename
AppendOnly ==
    run' = run =>
      \/ errors' = errors
      \/ \E e \in InAppend :
           /\ errors_lock = e
           /\ errors' = Append(errors, PlainName(e))
           /\ errors_lock' = 0

\* C12: failure-list mutual exclusion.  At most one task at a time is inside the
\* append to the failure list, the list is append-only during a run, and under every
\* interleaving of failing tasks no append is lost or duplicated: once the pool is
\* joined the list is as long as the number of tasks that raised.
C12_FailureListExclusion == [](ExclusiveAppend) /\ [][AppendOnly]_vars

\* C12 witness: a failing task holds the lock inside the append while another
\* failing task waits for the lock.
C12_Witness ==
    \E a, b \in Entry :
      /\ a # b
      /\ task[a].pc = "append" /\ errors_lock = a
      /\ task[b].pc = "except"
      /\ errors = <<>>

\* ------------------------------------------ claims: the scheduling thread
\* the entries of manifest m, those of them submitted in this run
EntriesOf(m) == {e \in Entry : ManifestOf(e) = m}
SubmittedOf(m) == EntriesOf(m) \cap Scheduled

\* decrypt_filenames has run for manifest m in this run
Decrypted(m) == EncryptedAtLoad(m) /\ ~filenames_encrypted[m]

\* every submitted task belongs to a manifest whose filenames are plain, every
\* started task resolved its path from the plain filename; a manifest the loop has
\* passed is decrypted, one it has not reached is as it was loaded
DecryptedBeforeSubmit ==
    /\ \A e \in Scheduled : ~filenames_encrypted[ManifestOf(e)]
    /\ \A e \in Started : task[e].path = PlainName(e)
    /\ \A m \in Manifest :
         /\ (EncryptedAtLoad(m) /\ (m < mi \/ (m = mi /\ mpc = "files"))) => Decrypted(m)
         /\ (m > mi /\ run > 0) => filenames_encrypted[m] = EncryptedAtLoad(m)
         /\ ~EncryptedAtLoad(m) => ~filenames_encrypted[m]

\* within a run a manifest's filenames change only once, from encrypted to plain,
\* in a step of the scheduling thread at that manifest, with the depot key, before
\* any of the manifest's files is submitted
DecryptOnceByScheduler ==
    run' = run =>
      \A m \in Manifest :
        filenames_encrypted'[m] # filenames_encrypted[m] =>
          /\ filenames_encrypted[m] /\ ~filenames_encrypted'[m]
          /\ mpc = "manifest" /\ mi = m /\ mpc' = "files"
          /\ depot_id(m) \in depot_keys'
          /\ SubmittedOf(m) = {}
          /\ task' = task

\* C13: filename-decrypt ordering.  For every manifest with encrypted filenames,
\* decrypt_filenames has run exactly once, on the scheduling thread, by the time any
\* file task of the manifest is submitted, and it never runs a second time; no file
\* task resolves its local path from a still-encrypted filename.
C13_DecryptBeforeSubmit == [](DecryptedBeforeSubmit) /\ [][DecryptOnceByScheduler]_vars

\* C13 witness: a file task of a manifest loaded with encrypted filenames is
\* copying to the path of its plain filename while the other manifest's task has
\* also started.
C13_Witness ==
    \E e \in Started :
      /\ EncryptedAtLoad(ManifestOf(e))
      /\ task[e].pc = "copy"
      /\ task[e].path = PlainName(e)
      /\ \E o \in Started : ManifestOf(o) # ManifestOf(e)

\* the download_files call is over: it returned, or an exception left it
CallOver == mpc \in {"returned", "raised"}

\* C14: scheduling coverage.  When a download_files call is over, every entry with
\* is_file true has had its task executed, once, and at no time is a task submitted
\* or executed for an entry with is_file false.
C14_EveryFileExecutedOnce ==
    /\ \A e \in Entry : ~is_file(e) => task[e].pc = "unsubmitted"
    /\ Cardinality(running) + Len(work_queue) + Cardinality(Finished) = Cardinality(Scheduled)
    /\ CallOver => \A e \in Entry : is_file(e) => task[e].pc = "done"

\* ------------------------------------------------ claims: order independence
\* What save_depot_file makes of entry e's local file, from the file it finds (pre)
\* and the entry's read faults alone: the copy starts at offset CopyFrom, proceeds
\* in reads of ReadSize bytes and stops at the first read that covers a faulty
\* offset, or at the end of the content; a file of the declared size or more is
\* left as found.
CopyFrom(e, pre) == IF pre = NoFile THEN 0 ELSE Len(pre)
FaultsAhead(e, pre) == {k \in fault[e] : k >= CopyFrom(e, pre)}
FirstFault(e, pre) == CHOOSE k \in FaultsAhead(e, pre) : \A j \in FaultsAhead(e, pre) : k <= j
CopyStop(e, pre) ==
    IF FaultsAhead(e, pre) = {} THEN size(e)
    ELSE CopyFrom(e, pre) + ((FirstFault(e, pre) - CopyFrom(e, pre)) \div ReadSize) * ReadSize
Outcome(e, pre) ==
    IF pre # NoFile /\ Len(pre) >= size(e) THEN pre
    ELSE (IF pre = NoFile THEN <<>> ELSE pre)
           \o SubSeq(Content(e), CopyFrom(e, pre) + 1, CopyStop(e, pre))

\* the names in the failure list, the names of the entries whose own inputs fail
FailedNames == {errors[i] : i \in 1..Len(errors)}
OwnFailures == {PlainName(e) : e \in {x \in Scheduled : OwnFailure(x)}}

\* after the join, every scheduled entry's file and the set of failed names are
\* what the entries' own inputs determine
SameFinalState ==
    Joined =>
      /\ \A e \in Scheduled :
           /\ task[e].pc = "done"
           /\ disk[PlainName(e)] = Outcome(e, task[e].pre)
      /\ FailedNames = OwnFailures

\* within a run a path changes only by a step of the one executing task that
\* resolved it, and a step changes the record of one task at most: a task reads and
\* writes nothing of another task
OwnPathOnly ==
    run' = run =>
      /\ \A p \in Path :
           disk'[p] # disk[p] =>
             \E e \in running :
               /\ task[e].path = p
               /\ task'[e] # task[e]
               /\ \A o \in Started \ {e} : task[o].path # p
      /\ \A a, b \in Entry : (task'[a] # task[a] /\ task'[b] # task[b]) => a = b
      /\ \A e \in Started : task'[e].pre = task[e].pre /\ task'[e].path = task[e].path

SchedulerStep ==
    \/ PlainManifest
    \/ DecryptFilenames
    \/ KeyLookupFails
    \/ Submit
    \/ SkipEntry
    \/ EndOfManifest
    \/ LeaveWith
    \/ Join
    \/ Report
WorkerStep(e) ==
    \/ StartTask(e)
    \/ OpenFresh(e)
    \/ OpenResume(e)
    \/ OpenVerify(e)
    \/ CopyChunk(e)
    \/ CopyEnd(e)
    \/ ReadRaises(e)
    \/ VerifyMatch(e)
    \/ VerifyMismatch(e)
    \/ AcquireLock(e)
    \/ AppendError(e)

\* Every thread that can take a step eventually takes one: the interpreter runs
\* every runnable thread, a read returns data, returns end-of-content or raises, and
\* a free lock is handed to a waiting thread.  Nothing obliges the user to start the
\* tool again.
Fairness == WF_vars(SchedulerStep) /\ \A e \in Entry : WF_vars(WorkerStep(e))
SpecLive == Init /\ [][Next]_vars /\ Fairness

\* C16: termination.  With reads that return data, return end-of-content or raise,
\* every submitted task eventually finishes - also when other tasks fail - and
\* every download_files call eventually reaches its report.
C16_Terminates ==
    /\ \A e \in Entry : (task[e].pc \notin {"unsubmitted", "done"}) ~> (task[e].pc = "done")
    /\ (mpc = "manifest") ~> (mpc = "returned" /\ Len(report) = 1)

\* ------------------------------------------- claims: the sequential prefix
\* entry e's task is a fresh download, or a resume from a proper prefix of the
\* content, and is past the branch it chose
CopiesFromPrefix(e) ==
    /\ e \in Started
    /\ task[e].pc # "start"
    /\ task[e].pre = NoFile \/ (IsPrefix(task[e].pre, e) /\ Len(task[e].pre) < size(e))

\* C17: sequential-prefix invariant.  At every point of a fresh download, and of a
\* resume started from a matching prefix, the local file is a prefix of the file's
\* true content: it holds the bytes up to the depot file's read offset, in order -
\* also once the task has been interrupted by an error.
C17_SequentialPrefix ==
    \A e \in Entry :
      CopiesFromPrefix(e) =>
        /\ IsPrefix(disk[task[e].path], e)
        /\ Len(disk[task[e].path]) = task[e].offset
        /\ Len(disk[task[e].path]) = CopyFrom(e, task[e].pre) + task[e].written
        /\ task[e].raised => Len(disk[task[e].path]) < size(e)

\* C17 witness: a fresh download was interrupted by a raising read after a chunk
\* had been written; the file holds that non-empty proper prefix.
C17_Witness ==
    \E e \in Entry :
      /\ CopiesFromPrefix(e)
      /\ task[e].pre = NoFile
      /\ task[e].raised
      /\ task[e].written > 0
      /\ disk[task[e].path] = SubSeq(Content(e), 1, task[e].written)
      /\ task[e].written < size(e)

\* ------------------------------------------------ claims: the chunk cache
\* the threads whose call has returned a value, those whose call has raised
Returned == {t \in Thread : calls[t].pc = "done"}
Failed == {t \in Thread : calls[t].pc = "failed"}

\* thread t takes the first step of a get_chunk call
Enters(t) == calls[t].pc \in {"idle", "done", "failed"} /\ calls'[t] # calls[t]

\* every cache entry is the successful decode of its key's frame; a call is at the
\* return statement only with its key cached; a call that returned without
\* fetching returned the cached bytes
CacheHoldsDecodes ==
    /\ \A k \in ChunkKey :
         chunk_cache[k] # <<>> =>
           DecodeFrame(cdn[k]).ok /\ chunk_cache[k] = <<DecodeFrame(cdn[k]).data>>
    /\ \A t \in Thread : calls[t].pc = "return" => chunk_cache[calls[t].key] # <<>>
    /\ \A t \in Returned :
         /\ calls[t].ok
         /\ calls[t].data = chunk_cache[calls[t].key][1]
    /\ \A t \in Failed : ~calls[t].ok /\ calls[t].err # "none"

\* a cache entry changes only from absent to the bytes a call decoded, in that
\* call's store step; the step in which a call fails changes nothing of the cache;
\* a call that finds its key cached goes to the return statement without fetching
CacheGrowsOnly ==
    /\ \A k \in ChunkKey :
         chunk_cache'[k] # chunk_cache[k] =>
           /\ chunk_cache[k] = <<>>
           /\ \E t \in Thread :
                /\ calls[t].pc = "store" /\ calls[t].key = k /\ calls[t].fetched
                /\ calls'[t].pc = "return"
                /\ chunk_cache'[k] = <<calls[t].data>>
    /\ \A t \in Thread :
         (calls'[t].pc = "failed" /\ calls[t].pc # "failed") => chunk_cache' = chunk_cache
    /\ \A t \in Thread :
         (Enters(t) /\ chunk_cache[calls'[t].key] # <<>>) =>
           /\ calls'[t].pc = "return"
           /\ ~calls'[t].fetched
           /\ chunk_cache' = chunk_cache
    /\ \A t \in Thread :
         (calls[t].pc = "return" /\ calls'[t].pc = "done" /\ ~calls[t].fetched) =>
           /\ calls'[t].data = chunk_cache[calls[t].key][1]
           /\ calls'[t].fetched = FALSE
           /\ chunk_cache' = chunk_cache

C19_BenignRace ==
    /\ \A t, u \in Returned : calls[t].key = calls[u].key => calls[t].data = calls[u].data
    /\ \A t \in Returned :
         /\ DecodeFrame(cdn[calls[t].key]).ok
         /\ calls[t].data = DecodeFrame(cdn[calls[t].key]).data
         /\ chunk_cache[calls[t].key] = <<calls[t].data>>
    /\ \A t \in Thread :
         calls[t].pc = "store" => calls[t].data = DecodeFrame(cdn[calls[t].key]).data

\* C19 witness: two threads that both found the key absent, and both fetched and
\* decoded, have returned the same bytes.
C19_Witness ==
    \E t, u \in Returned :
      /\ t # u
      /\ calls[t].key = calls[u].key
      /\ calls[t].fetched /\ calls[u].fetched
      /\ calls[t].data # <<>>
      /\ calls[t].data = calls[u].data

\* --------------------------------------------- claims: recovery across runs
\* a task that ended as a fresh download interrupted by a raising read, one that
\* ended as a resume that returned without raising
FreshFailed(t) == t.pc = "done" /\ t.mode = "wb" /\ t.raised
ResumedOk(t) == t.pc = "done" /\ t.mode = "ab" /\ ~t.raised

\* entry e's task of the run before this one, of the run before that
LastRun(e) == history[e][Len(history[e])]
RunBeforeLast(e) == history[e][Len(history[e]) - 1]

\* C20: recovery across runs.  A fresh download that fails after k < size bytes
\* were written is recorded as failed in its run and leaves the k-byte prefix on
\* disk; the task of the next run finds that prefix, takes the resume branch from
\* offset k and, when its reads succeed, records no failure and leaves the complete
\* content; the task of the run after that takes the hash-check branch, changes
\* nothing and verifies the hash successfully.
C20_RecoveryAcrossRuns ==
    \A e \in Entry :
      /\ FreshFailed(task[e]) =>
           /\ InErrors(e)
           /\ task[e].written < size(e)
           /\ disk[task[e].path] = SubSeq(Content(e), 1, task[e].written)
      /\ (e \in Started /\ Len(history[e]) >= 1 /\ FreshFailed(LastRun(e))) =>
           /\ task[e].pre = SubSeq(Content(e), 1, LastRun(e).written)
           /\ task[e].pc # "start" =>
                /\ task[e].mode = "ab"
                /\ task[e].seek = <<LastRun(e).written>>
           /\ (task[e].pc = "done" /\ ResumeReadsSucceed(e)) =>
                /\ ~task[e].raised
                /\ ~InErrors(e)
                /\ disk[task[e].path] = Content(e)
      /\ (e \in Started /\ Len(history[e]) >= 2
            /\ FreshFailed(RunBeforeLast(e)) /\ ResumedOk(LastRun(e))) =>
           /\ task[e].pre = Content(e)
           /\ disk[task[e].path] = Content(e)
           /\ task[e].pc # "start" =>
                /\ task[e].mode = "rb"
                /\ task[e].pc \in {"verify", "done"}
                /\ task[e].written = 0
                /\ task[e].reads = 0
                /\ ~task[e].raised
                /\ ~InErrors(e)

\* C20 witness: the third run has verified a file that the first run left as a
\* non-empty partial download and the second run completed by resuming.
C20_Witness ==
    \E e \in Finished :
      /\ run = 3
      /\ Len(history[e]) = 2
      /\ FreshFailed(RunBeforeLast(e))
      /\ RunBeforeLast(e).written > 0
      /\ ResumedOk(LastRun(e))
      /\ LastRun(e).written = size(e) - RunBeforeLast(e).written
      /\ task[e].mode = "rb"
      /\ ~task[e].raised
      /\ mpc = "returned"

====
